---- MODULE Spec2Model ----
(***************************************************************************)
(* Model of src/v2.py: the periodic-table sample tracker.  The pipeline    *)
(* fetch_sheet_data -> assemble_elements -> render_html -> write is one    *)
(* state machine (Spec); the filter-tag normalisation sanitize_label is    *)
(* also exercised on its own over all short labels (SpecLabel).            *)
(*                                                                         *)
(* Text is modelled as a sequence of one-character strings, so that the    *)
(* character-level functions (strip, lower, isalnum, html.escape, str)     *)
(* are computed as the code computes them.                                 *)
(***************************************************************************)
EXTENDS Integers, Sequences, FiniteSets, TLC

VARIABLES
  pc,           \* position of main(): "start", "fetched", "assembled", "rendered", "written", "failed"
  response,     \* what requests.get returned: [status, body]
  data,         \* main's `data`: the parsed payload
  elements,     \* main's `elements`: the list assemble_elements returned
  html_out,     \* main's `html_out`: the document render_html returned
  pos_map,      \* render_html's `pos_map`: (row, col) -> atomic number or None
  f_block,      \* render_html's `lanths, actins`
  output,       \* the output file: <<>> until written
  calls,        \* the functions main has invoked so far, in order
  lstage,       \* SpecLabel: "input", "tagged", "retagged"
  lbl,          \* SpecLabel: a label x
  variant,      \* SpecLabel: a label y obtained from x by edits
  stretched,    \* SpecLabel: TRUE once the length of an inner run of y was changed
  tag,          \* SpecLabel: sanitize_label(lbl)
  vtag,         \* SpecLabel: sanitize_label(variant)
  retag,        \* SpecLabel: sanitize_label(tag)
  active,       \* browser: the legend items (by position) with class "active"
  filtered,     \* browser: the quarters <<cell, k>> with class "filtered"
  overlay_visible,  \* browser: #overlay has class "visible"
  popup_visible,    \* browser: #popup has class "visible"
  popup_html    \* browser: what was last assigned to popup.innerHTML

vars == <<pc, response, data, elements, html_out, pos_map, f_block, output, calls,
          lstage, lbl, variant, stretched, tag, vtag, retag,
          active, filtered, overlay_visible, popup_visible, popup_html>>
pipeVars == <<pc, response, data, elements, html_out, pos_map, f_block, output, calls>>
labelVars == <<lstage, lbl, variant, stretched, tag, vtag, retag>>
clientVars == <<active, filtered, overlay_visible, popup_visible, popup_html>>

(***************************************************************************)
(* Bounds of the model.                                                    *)
(***************************************************************************)
MaxLen == 3
MaxSamples == 5
MaxEntries == 2

(***************************************************************************)
(* Characters and Python's str methods.                                    *)
(***************************************************************************)
Uppers == <<"A","B","C","D","E","F","G","H","I","J","K","L","M",
            "N","O","P","Q","R","S","T","U","V","W","X","Y","Z">>
Lowers == <<"a","b","c","d","e","f","g","h","i","j","k","l","m",
            "n","o","p","q","r","s","t","u","v","w","x","y","z">>
Digits == <<"0","1","2","3","4","5","6","7","8","9">>
Whitespace == {" ", "\t", "\n"}

Range(s) == {s[i] : i \in DOMAIN s}

\* str.isalnum() of one character
isalnum(ch) == ch \in Range(Uppers) \cup Range(Lowers) \cup Range(Digits)

\* str.lower() of one character
lower_ch(ch) ==
  IF ch \in Range(Uppers)
    THEN Lowers[CHOOSE i \in DOMAIN Uppers : Uppers[i] = ch]
    ELSE ch

\* str.lower()
lower(s) == [i \in DOMAIN s |-> lower_ch(s[i])]

\* str.strip(chars): drop the longest prefix and suffix made of `chars`
RECURSIVE lstrip(_, _)
lstrip(s, chars) ==
  IF s # <<>> /\ Head(s) \in chars THEN lstrip(Tail(s), chars) ELSE s

RECURSIVE rstrip(_, _)
rstrip(s, chars) ==
  IF s # <<>> /\ s[Len(s)] \in chars
    THEN rstrip(SubSeq(s, 1, Len(s) - 1), chars)
    ELSE s

strip(s, chars) == rstrip(lstrip(s, chars), chars)

\* sep.join(parts)
RECURSIVE join(_, _)
join(sep, parts) ==
  IF parts = <<>> THEN <<>>
  ELSE IF Len(parts) = 1 THEN parts[1]
  ELSE parts[1] \o sep \o join(sep, Tail(parts))

\* str(n) for a non-negative int
RECURSIVE str_int(_)
str_int(n) ==
  IF n < 10 THEN <<Digits[n + 1]>>
  ELSE str_int(n \div 10) \o <<Digits[(n % 10) + 1]>>

\* html.escape(s, quote=True)
esc_ch(ch) ==
  CASE ch = "&"  -> <<"&","a","m","p",";">>
    [] ch = "<"  -> <<"&","l","t",";">>
    [] ch = ">"  -> <<"&","g","t",";">>
    [] ch = "\"" -> <<"&","q","u","o","t",";">>
    [] ch = "'"  -> <<"&","#","x","2","7",";">>
    [] OTHER     -> <<ch>>

EscapedChars == {"&", "<", ">", "\"", "'"}

RECURSIVE esc_each(_)
esc_each(s) == IF s = <<>> THEN <<>> ELSE esc_ch(Head(s)) \o esc_each(Tail(s))

esc(s) == IF \A i \in DOMAIN s : s[i] \notin EscapedChars THEN s ELSE esc_each(s)

(***************************************************************************)
(* sanitize_label (nested in render_html).                                 *)
(***************************************************************************)
\* the loop of sanitize_label: every non-alphanumeric character becomes '-'
dashed(s) == [i \in DOMAIN s |-> IF isalnum(s[i]) THEN s[i] ELSE "-"]

\* a slip: the dashes are stripped before the replacement, not after it
sanitize_label_strip_first(label) == dashed(strip(lower(label), {"-"}))

\* a slip: the label is not lowercased
sanitize_label_no_lower(label) == strip(dashed(label), {"-"})

sanitize_label(label) == strip(dashed(lower(label)), {"-"})

PERIODIC_TABLE ==
  <<
    [z |-> 1, symbol |-> <<"H">>, name |-> <<"H","y","d","r","o","g","e","n">>, group |-> 1, period |-> 1],
    [z |-> 2, symbol |-> <<"H","e">>, name |-> <<"H","e","l","i","u","m">>, group |-> 18, period |-> 1],
    [z |-> 3, symbol |-> <<"L","i">>, name |-> <<"L","i","t","h","i","u","m">>, group |-> 1, period |-> 2],
    [z |-> 4, symbol |-> <<"B","e">>, name |-> <<"B","e","r","y","l","l","i","u","m">>, group |-> 2, period |-> 2],
    [z |-> 5, symbol |-> <<"B">>, name |-> <<"B","o","r","o","n">>, group |-> 13, period |-> 2],
    [z |-> 6, symbol |-> <<"C">>, name |-> <<"C","a","r","b","o","n">>, group |-> 14, period |-> 2],
    [z |-> 7, symbol |-> <<"N">>, name |-> <<"N","i","t","r","o","g","e","n">>, group |-> 15, period |-> 2],
    [z |-> 8, symbol |-> <<"O">>, name |-> <<"O","x","y","g","e","n">>, group |-> 16, period |-> 2],
    [z |-> 9, symbol |-> <<"F">>, name |-> <<"F","l","u","o","r","i","n","e">>, group |-> 17, period |-> 2],
    [z |-> 10, symbol |-> <<"N","e">>, name |-> <<"N","e","o","n">>, group |-> 18, period |-> 2],
    [z |-> 11, symbol |-> <<"N","a">>, name |-> <<"S","o","d","i","u","m">>, group |-> 1, period |-> 3],
    [z |-> 12, symbol |-> <<"M","g">>, name |-> <<"M","a","g","n","e","s","i","u","m">>, group |-> 2, period |-> 3],
    [z |-> 13, symbol |-> <<"A","l">>, name |-> <<"A","l","u","m","i","n","i","u","m">>, group |-> 13, period |-> 3],
    [z |-> 14, symbol |-> <<"S","i">>, name |-> <<"S","i","l","i","c","o","n">>, group |-> 14, period |-> 3],
    [z |-> 15, symbol |-> <<"P">>, name |-> <<"P","h","o","s","p","h","o","r","u","s">>, group |-> 15, period |-> 3],
    [z |-> 16, symbol |-> <<"S">>, name |-> <<"S","u","l","f","u","r">>, group |-> 16, period |-> 3],
    [z |-> 17, symbol |-> <<"C","l">>, name |-> <<"C","h","l","o","r","i","n","e">>, group |-> 17, period |-> 3],
    [z |-> 18, symbol |-> <<"A","r">>, name |-> <<"A","r","g","o","n">>, group |-> 18, period |-> 3],
    [z |-> 19, symbol |-> <<"K">>, name |-> <<"P","o","t","a","s","s","i","u","m">>, group |-> 1, period |-> 4],
    [z |-> 20, symbol |-> <<"C","a">>, name |-> <<"C","a","l","c","i","u","m">>, group |-> 2, period |-> 4],
    [z |-> 21, symbol |-> <<"S","c">>, name |-> <<"S","c","a","n","d","i","u","m">>, group |-> 3, period |-> 4],
    [z |-> 22, symbol |-> <<"T","i">>, name |-> <<"T","i","t","a","n","i","u","m">>, group |-> 4, period |-> 4],
    [z |-> 23, symbol |-> <<"V">>, name |-> <<"V","a","n","a","d","i","u","m">>, group |-> 5, period |-> 4],
    [z |-> 24, symbol |-> <<"C","r">>, name |-> <<"C","h","r","o","m","i","u","m">>, group |-> 6, period |-> 4],
    [z |-> 25, symbol |-> <<"M","n">>, name |-> <<"M","a","n","g","a","n","e","s","e">>, group |-> 7, period |-> 4],
    [z |-> 26, symbol |-> <<"F","e">>, name |-> <<"I","r","o","n">>, group |-> 8, period |-> 4],
    [z |-> 27, symbol |-> <<"C","o">>, name |-> <<"C","o","b","a","l","t">>, group |-> 9, period |-> 4],
    [z |-> 28, symbol |-> <<"N","i">>, name |-> <<"N","i","c","k","e","l">>, group |-> 10, period |-> 4],
    [z |-> 29, symbol |-> <<"C","u">>, name |-> <<"C","o","p","p","e","r">>, group |-> 11, period |-> 4],
    [z |-> 30, symbol |-> <<"Z","n">>, name |-> <<"Z","i","n","c">>, group |-> 12, period |-> 4],
    [z |-> 31, symbol |-> <<"G","a">>, name |-> <<"G","a","l","l","i","u","m">>, group |-> 13, period |-> 4],
    [z |-> 32, symbol |-> <<"G","e">>, name |-> <<"G","e","r","m","a","n","i","u","m">>, group |-> 14, period |-> 4],
    [z |-> 33, symbol |-> <<"A","s">>, name |-> <<"A","r","s","e","n","i","c">>, group |-> 15, period |-> 4],
    [z |-> 34, symbol |-> <<"S","e">>, name |-> <<"S","e","l","e","n","i","u","m">>, group |-> 16, period |-> 4],
    [z |-> 35, symbol |-> <<"B","r">>, name |-> <<"B","r","o","m","i","n","e">>, group |-> 17, period |-> 4],
    [z |-> 36, symbol |-> <<"K","r">>, name |-> <<"K","r","y","p","t","o","n">>, group |-> 18, period |-> 4],
    [z |-> 37, symbol |-> <<"R","b">>, name |-> <<"R","u","b","i","d","i","u","m">>, group |-> 1, period |-> 5],
    [z |-> 38, symbol |-> <<"S","r">>, name |-> <<"S","t","r","o","n","t","i","u","m">>, group |-> 2, period |-> 5],
    [z |-> 39, symbol |-> <<"Y">>, name |-> <<"Y","t","t","r","i","u","m">>, group |-> 3, period |-> 5],
    [z |-> 40, symbol |-> <<"Z","r">>, name |-> <<"Z","i","r","c","o","n","i","u","m">>, group |-> 4, period |-> 5],
    [z |-> 41, symbol |-> <<"N","b">>, name |-> <<"N","i","o","b","i","u","m">>, group |-> 5, period |-> 5],
    [z |-> 42, symbol |-> <<"M","o">>, name |-> <<"M","o","l","y","b","d","e","n","u","m">>, group |-> 6, period |-> 5],
    [z |-> 43, symbol |-> <<"T","c">>, name |-> <<"T","e","c","h","n","e","t","i","u","m">>, group |-> 7, period |-> 5],
    [z |-> 44, symbol |-> <<"R","u">>, name |-> <<"R","u","t","h","e","n","i","u","m">>, group |-> 8, period |-> 5],
    [z |-> 45, symbol |-> <<"R","h">>, name |-> <<"R","h","o","d","i","u","m">>, group |-> 9, period |-> 5],
    [z |-> 46, symbol |-> <<"P","d">>, name |-> <<"P","a","l","l","a","d","i","u","m">>, group |-> 10, period |-> 5],
    [z |-> 47, symbol |-> <<"A","g">>, name |-> <<"S","i","l","v","e","r">>, group |-> 11, period |-> 5],
    [z |-> 48, symbol |-> <<"C","d">>, name |-> <<"C","a","d","m","i","u","m">>, group |-> 12, period |-> 5],
    [z |-> 49, symbol |-> <<"I","n">>, name |-> <<"I","n","d","i","u","m">>, group |-> 13, period |-> 5],
    [z |-> 50, symbol |-> <<"S","n">>, name |-> <<"T","i","n">>, group |-> 14, period |-> 5],
    [z |-> 51, symbol |-> <<"S","b">>, name |-> <<"A","n","t","i","m","o","n","y">>, group |-> 15, period |-> 5],
    [z |-> 52, symbol |-> <<"T","e">>, name |-> <<"T","e","l","l","u","r","i","u","m">>, group |-> 16, period |-> 5],
    [z |-> 53, symbol |-> <<"I">>, name |-> <<"I","o","d","i","n","e">>, group |-> 17, period |-> 5],
    [z |-> 54, symbol |-> <<"X","e">>, name |-> <<"X","e","n","o","n">>, group |-> 18, period |-> 5],
    [z |-> 55, symbol |-> <<"C","s">>, name |-> <<"C","a","e","s","i","u","m">>, group |-> 1, period |-> 6],
    [z |-> 56, symbol |-> <<"B","a">>, name |-> <<"B","a","r","i","u","m">>, group |-> 2, period |-> 6],
    [z |-> 57, symbol |-> <<"L","a">>, name |-> <<"L","a","n","t","h","a","n","u","m">>, group |-> 3, period |-> 6],
    [z |-> 58, symbol |-> <<"C","e">>, name |-> <<"C","e","r","i","u","m">>, group |-> 3, period |-> 6],
    [z |-> 59, symbol |-> <<"P","r">>, name |-> <<"P","r","a","s","e","o","d","y","m","i","u","m">>, group |-> 3, period |-> 6],
    [z |-> 60, symbol |-> <<"N","d">>, name |-> <<"N","e","o","d","y","m","i","u","m">>, group |-> 3, period |-> 6],
    [z |-> 61, symbol |-> <<"P","m">>, name |-> <<"P","r","o","m","e","t","h","i","u","m">>, group |-> 3, period |-> 6],
    [z |-> 62, symbol |-> <<"S","m">>, name |-> <<"S","a","m","a","r","i","u","m">>, group |-> 3, period |-> 6],
    [z |-> 63, symbol |-> <<"E","u">>, name |-> <<"E","u","r","o","p","i","u","m">>, group |-> 3, period |-> 6],
    [z |-> 64, symbol |-> <<"G","d">>, name |-> <<"G","a","d","o","l","i","n","i","u","m">>, group |-> 3, period |-> 6],
    [z |-> 65, symbol |-> <<"T","b">>, name |-> <<"T","e","r","b","i","u","m">>, group |-> 3, period |-> 6],
    [z |-> 66, symbol |-> <<"D","y">>, name |-> <<"D","y","s","p","r","o","s","i","u","m">>, group |-> 3, period |-> 6],
    [z |-> 67, symbol |-> <<"H","o">>, name |-> <<"H","o","l","m","i","u","m">>, group |-> 3, period |-> 6],
    [z |-> 68, symbol |-> <<"E","r">>, name |-> <<"E","r","b","i","u","m">>, group |-> 3, period |-> 6],
    [z |-> 69, symbol |-> <<"T","m">>, name |-> <<"T","h","u","l","i","u","m">>, group |-> 3, period |-> 6],
    [z |-> 70, symbol |-> <<"Y","b">>, name |-> <<"Y","t","t","e","r","b","i","u","m">>, group |-> 3, period |-> 6],
    [z |-> 71, symbol |-> <<"L","u">>, name |-> <<"L","u","t","e","t","i","u","m">>, group |-> 3, period |-> 6],
    [z |-> 72, symbol |-> <<"H","f">>, name |-> <<"H","a","f","n","i","u","m">>, group |-> 4, period |-> 6],
    [z |-> 73, symbol |-> <<"T","a">>, name |-> <<"T","a","n","t","a","l","u","m">>, group |-> 5, period |-> 6],
    [z |-> 74, symbol |-> <<"W">>, name |-> <<"T","u","n","g","s","t","e","n">>, group |-> 6, period |-> 6],
    [z |-> 75, symbol |-> <<"R","e">>, name |-> <<"R","h","e","n","i","u","m">>, group |-> 7, period |-> 6],
    [z |-> 76, symbol |-> <<"O","s">>, name |-> <<"O","s","m","i","u","m">>, group |-> 8, period |-> 6],
    [z |-> 77, symbol |-> <<"I","r">>, name |-> <<"I","r","i","d","i","u","m">>, group |-> 9, period |-> 6],
    [z |-> 78, symbol |-> <<"P","t">>, name |-> <<"P","l","a","t","i","n","u","m">>, group |-> 10, period |-> 6],
    [z |-> 79, symbol |-> <<"A","u">>, name |-> <<"G","o","l","d">>, group |-> 11, period |-> 6],
    [z |-> 80, symbol |-> <<"H","g">>, name |-> <<"M","e","r","c","u","r","y">>, group |-> 12, period |-> 6],
    [z |-> 81, symbol |-> <<"T","l">>, name |-> <<"T","h","a","l","l","i","u","m">>, group |-> 13, period |-> 6],
    [z |-> 82, symbol |-> <<"P","b">>, name |-> <<"L","e","a","d">>, group |-> 14, period |-> 6],
    [z |-> 83, symbol |-> <<"B","i">>, name |-> <<"B","i","s","m","u","t","h">>, group |-> 15, period |-> 6],
    [z |-> 84, symbol |-> <<"P","o">>, name |-> <<"P","o","l","o","n","i","u","m">>, group |-> 16, period |-> 6],
    [z |-> 85, symbol |-> <<"A","t">>, name |-> <<"A","s","t","a","t","i","n","e">>, group |-> 17, period |-> 6],
    [z |-> 86, symbol |-> <<"R","n">>, name |-> <<"R","a","d","o","n">>, group |-> 18, period |-> 6],
    [z |-> 87, symbol |-> <<"F","r">>, name |-> <<"F","r","a","n","c","i","u","m">>, group |-> 1, period |-> 7],
    [z |-> 88, symbol |-> <<"R","a">>, name |-> <<"R","a","d","i","u","m">>, group |-> 2, period |-> 7],
    [z |-> 89, symbol |-> <<"A","c">>, name |-> <<"A","c","t","i","n","i","u","m">>, group |-> 3, period |-> 7],
    [z |-> 90, symbol |-> <<"T","h">>, name |-> <<"T","h","o","r","i","u","m">>, group |-> 3, period |-> 7],
    [z |-> 91, symbol |-> <<"P","a">>, name |-> <<"P","r","o","t","a","c","t","i","n","i","u","m">>, group |-> 3, period |-> 7],
    [z |-> 92, symbol |-> <<"U">>, name |-> <<"U","r","a","n","i","u","m">>, group |-> 3, period |-> 7],
    [z |-> 93, symbol |-> <<"N","p">>, name |-> <<"N","e","p","t","u","n","i","u","m">>, group |-> 3, period |-> 7],
    [z |-> 94, symbol |-> <<"P","u">>, name |-> <<"P","l","u","t","o","n","i","u","m">>, group |-> 3, period |-> 7],
    [z |-> 95, symbol |-> <<"A","m">>, name |-> <<"A","m","e","r","i","c","i","u","m">>, group |-> 3, period |-> 7],
    [z |-> 96, symbol |-> <<"C","m">>, name |-> <<"C","u","r","i","u","m">>, group |-> 3, period |-> 7],
    [z |-> 97, symbol |-> <<"B","k">>, name |-> <<"B","e","r","k","e","l","i","u","m">>, group |-> 3, period |-> 7],
    [z |-> 98, symbol |-> <<"C","f">>, name |-> <<"C","a","l","i","f","o","r","n","i","u","m">>, group |-> 3, period |-> 7],
    [z |-> 99, symbol |-> <<"E","s">>, name |-> <<"E","i","n","s","t","e","i","n","i","u","m">>, group |-> 3, period |-> 7],
    [z |-> 100, symbol |-> <<"F","m">>, name |-> <<"F","e","r","m","i","u","m">>, group |-> 3, period |-> 7],
    [z |-> 101, symbol |-> <<"M","d">>, name |-> <<"M","e","n","d","e","l","e","v","i","u","m">>, group |-> 3, period |-> 7],
    [z |-> 102, symbol |-> <<"N","o">>, name |-> <<"N","o","b","e","l","i","u","m">>, group |-> 3, period |-> 7],
    [z |-> 103, symbol |-> <<"L","r">>, name |-> <<"L","a","w","r","e","n","c","i","u","m">>, group |-> 3, period |-> 7],
    [z |-> 104, symbol |-> <<"R","f">>, name |-> <<"R","u","t","h","e","r","f","o","r","d","i","u","m">>, group |-> 4, period |-> 7],
    [z |-> 105, symbol |-> <<"D","b">>, name |-> <<"D","u","b","n","i","u","m">>, group |-> 5, period |-> 7],
    [z |-> 106, symbol |-> <<"S","g">>, name |-> <<"S","e","a","b","o","r","g","i","u","m">>, group |-> 6, period |-> 7],
    [z |-> 107, symbol |-> <<"B","h">>, name |-> <<"B","o","h","r","i","u","m">>, group |-> 7, period |-> 7],
    [z |-> 108, symbol |-> <<"H","s">>, name |-> <<"H","a","s","s","i","u","m">>, group |-> 8, period |-> 7],
    [z |-> 109, symbol |-> <<"M","t">>, name |-> <<"M","e","i","t","n","e","r","i","u","m">>, group |-> 9, period |-> 7],
    [z |-> 110, symbol |-> <<"D","s">>, name |-> <<"D","a","r","m","s","t","a","d","t","i","u","m">>, group |-> 10, period |-> 7],
    [z |-> 111, symbol |-> <<"R","g">>, name |-> <<"R","o","e","n","t","g","e","n","i","u","m">>, group |-> 11, period |-> 7],
    [z |-> 112, symbol |-> <<"C","n">>, name |-> <<"C","o","p","e","r","n","i","c","i","u","m">>, group |-> 12, period |-> 7],
    [z |-> 113, symbol |-> <<"N","h">>, name |-> <<"N","i","h","o","n","i","u","m">>, group |-> 13, period |-> 7],
    [z |-> 114, symbol |-> <<"F","l">>, name |-> <<"F","l","e","r","o","v","i","u","m">>, group |-> 14, period |-> 7],
    [z |-> 115, symbol |-> <<"M","c">>, name |-> <<"M","o","s","c","o","v","i","u","m">>, group |-> 15, period |-> 7],
    [z |-> 116, symbol |-> <<"L","v">>, name |-> <<"L","i","v","e","r","m","o","r","i","u","m">>, group |-> 16, period |-> 7],
    [z |-> 117, symbol |-> <<"T","s">>, name |-> <<"T","e","n","n","e","s","s","i","n","e">>, group |-> 17, period |-> 7],
    [z |-> 118, symbol |-> <<"O","g">>, name |-> <<"O","g","a","n","e","s","s","o","n">>, group |-> 18, period |-> 7]
  >>

(***************************************************************************)
(* JSON values as Python sees them after response.json().  A dict whose    *)
(* keys vary from one input to the next (a sample, an entry, the payload)  *)
(* is a function on the keys it has; a dict iterated in insertion order    *)
(* (legend, labelColors) is a sequence of <<key, value>> pairs with        *)
(* distinct keys.                                                          *)
(***************************************************************************)
JNull == [t |-> "null"]
JStr(s) == [t |-> "str", v |-> s]
JNum(n) == [t |-> "num", v |-> n]

\* str(x) of a JSON scalar
str(x) ==
  CASE x.t = "null" -> <<"N","o","n","e">>
    [] x.t = "str"  -> x.v
    [] x.t = "num"  -> str_int(x.v)

\* d.get(key, default) of a dict modelled as a function
get(d, key, default) == IF key \in DOMAIN d THEN d[key] ELSE default

\* d.get(key, default) of a dict modelled as a sequence of pairs
HasKey(d, key) == \E i \in DOMAIN d : d[i][1] = key
items_get(d, key, default) ==
  IF HasKey(d, key) THEN d[CHOOSE i \in DOMAIN d : d[i][1] = key][2] ELSE default

\* Optional[int]: no atomic number
None == 0

IsFBlock(z) == (57 <= z /\ z <= 71) \/ (89 <= z /\ z <= 103)

\* build_position_map: every (period, group) starts as None, then each
\* main-block element is written at its coordinate in table order, so the
\* last element written at a coordinate is the one it holds
build_position_map ==
  [c \in (1..7) \X (1..18) |->
     LET placed == {i \in DOMAIN PERIODIC_TABLE :
                      /\ ~IsFBlock(PERIODIC_TABLE[i].z)
                      /\ <<PERIODIC_TABLE[i].period, PERIODIC_TABLE[i].group>> = c}
     IN IF placed = {} THEN None
        ELSE PERIODIC_TABLE[CHOOSE i \in placed : \A j \in placed : j <= i].z]

\* a slip: the lanthanide range stops one short
lanths_short ==
  SelectSeq([i \in DOMAIN PERIODIC_TABLE |-> PERIODIC_TABLE[i].z],
            LAMBDA z : 57 <= z /\ z <= 70)

\* assign_f_block: the two series, in table order
lanths ==
  SelectSeq([i \in DOMAIN PERIODIC_TABLE |-> PERIODIC_TABLE[i].z],
            LAMBDA z : 57 <= z /\ z <= 71)

actins ==
  SelectSeq([i \in DOMAIN PERIODIC_TABLE |-> PERIODIC_TABLE[i].z],
            LAMBDA z : 89 <= z /\ z <= 103)

assign_f_block == <<lanths, actins>>

\* build_cell_positions: the f-block anchors are cleared
build_cell_positions ==
  [build_position_map EXCEPT ![<<6, 3>>] = None, ![<<7, 3>>] = None]

(***************************************************************************)
(* assemble_elements                                                       *)
(***************************************************************************)
EmptyText == <<>>
EmptySample == [value |-> EmptyText, state |-> EmptyText, color |-> EmptyText]

\* the first loop of assemble_elements: symbol -> entry, a later entry with
\* the same stripped symbol replacing an earlier one, entries without a
\* symbol skipped
RECURSIVE build_sheet_map(_, _)
build_sheet_map(entries, sheet_map) ==
  IF entries = <<>> THEN sheet_map
  ELSE LET entry == Head(entries)
           sym == strip(str(get(entry, "symbol", JStr(EmptyText))), Whitespace)
       IN IF sym = EmptyText
            THEN build_sheet_map(Tail(entries), sheet_map)
            ELSE build_sheet_map(
                   Tail(entries),
                   [k \in DOMAIN sheet_map \cup {sym} |->
                      IF k = sym THEN entry ELSE sheet_map[k]])

\* a slip: the legend colour replaces the sample's own colour
make_sample_override(s, label_colors) ==
  LET val == get(s, "value", JStr(EmptyText))
      val_str == str(IF val.t = "null" THEN JStr(EmptyText) ELSE val)
      state == strip(str(get(s, "state", JStr(EmptyText))), Whitespace)
      color == strip(str(get(s, "color", JStr(EmptyText))), Whitespace)
  IN [value |-> val_str,
      state |-> state,
      color |-> IF state # EmptyText
                  THEN items_get(label_colors, state, EmptyText)
                  ELSE color]

\* the body of the loop over entry["samples"]
make_sample(s, label_colors) ==
  LET val == get(s, "value", JStr(EmptyText))
      val_str == str(IF val.t = "null" THEN JStr(EmptyText) ELSE val)
      state == strip(str(get(s, "state", JStr(EmptyText))), Whitespace)
      color == strip(str(get(s, "color", JStr(EmptyText))), Whitespace)
  IN [value |-> val_str,
      state |-> state,
      color |-> IF state # EmptyText /\ color = EmptyText
                  THEN items_get(label_colors, state, EmptyText)
                  ELSE color]

\* "Ensure four samples": the while loop only appends
RECURSIVE pad_samples(_)
pad_samples(samples_info) ==
  IF Len(samples_info) < 4
    THEN pad_samples(Append(samples_info, EmptySample))
    ELSE samples_info

\* the samples of one table entry
samples_of(sheet_map, sym, label_colors) ==
  LET found == sym \in DOMAIN sheet_map /\ DOMAIN sheet_map[sym] # {}
      supplied == IF found THEN get(sheet_map[sym], "samples", <<>>) ELSE <<>>
      samples_info ==
        IF found
          THEN [i \in DOMAIN supplied |-> make_sample(supplied[i], label_colors)]
          ELSE [i \in 1..4 |-> EmptySample]
  IN pad_samples(samples_info)

assemble_elements(payload, label_colors) ==
  LET sheet_map == build_sheet_map(get(payload, "elements", <<>>), <<>>)
  IN [i \in DOMAIN PERIODIC_TABLE |->
        LET meta == PERIODIC_TABLE[i]
        IN [z |-> meta.z,
            symbol |-> meta.symbol,
            name |-> meta.name,
            samples |-> samples_of(sheet_map, meta.symbol, label_colors)]]

(***************************************************************************)
(* render_html.  The document is modelled by its parts: the grid's cells   *)
(* in the order they are appended, the legend items, and the elementsData  *)
(* object the script embeds.  Attribute values and text are kept as the    *)
(* text the code emits (after esc).                                        *)
(***************************************************************************)
NeutralColour == <<"#","e","a","e","a","e","a">>

\* a slip: the pairs of "legend" are taken as they are, colour first
legend_order_not_inverted(payload) ==
  IF "legend" \in DOMAIN payload
    THEN payload["legend"]
    ELSE get(payload, "labelColors", <<>>)

\* legend_order: (label, colour) pairs, from "legend" (colour -> label) when
\* the payload has it, else from labelColors (label -> colour)
legend_order(payload) ==
  IF "legend" \in DOMAIN payload
    THEN [i \in DOMAIN payload["legend"] |->
            <<payload["legend"][i][2], payload["legend"][i][1]>>]
    ELSE get(payload, "labelColors", <<>>)

\* the parts of a sample that are not empty: state, then value
sample_parts(s) ==
  (IF s.state # EmptyText THEN <<s.state>> ELSE <<>>)
    \o (IF s.value # EmptyText THEN <<s.value>> ELSE <<>>)

\* a slip: an empty colour is emitted as it is, without the placeholder
render_sample_quarter_no_placeholder(sample, idx) ==
  LET label_index == str_int(idx + 1)
      tooltip_parts ==
        (IF sample.state # EmptyText THEN <<esc(sample.state)>> ELSE <<>>)
          \o (IF sample.value # EmptyText THEN <<esc(sample.value)>> ELSE <<>>)
      tip_text == IF tooltip_parts # <<>>
                    THEN esc(join(<<" ","|"," ">>, tooltip_parts))
                    ELSE EmptyText
      state_class == IF sample.state # EmptyText
                       THEN <<" ","s","t","a","t","e","-">> \o sanitize_label(sample.state)
                       ELSE EmptyText
      data_state == IF sample.state # EmptyText
                      THEN sanitize_label(sample.state)
                      ELSE EmptyText
  IN [class |-> "quarter",
      state_class |-> state_class,
      background |-> esc(sample.color),
      data_state |-> esc(data_state),
      data_tip |-> tip_text,
      sidx |-> esc(label_index)]

render_sample_quarter(sample, idx) ==
  LET bg == IF sample.color # EmptyText THEN sample.color ELSE NeutralColour
      label_index == str_int(idx + 1)
      tooltip_parts ==
        (IF sample.state # EmptyText THEN <<esc(sample.state)>> ELSE <<>>)
          \o (IF sample.value # EmptyText THEN <<esc(sample.value)>> ELSE <<>>)
      tip_text == IF tooltip_parts # <<>>
                    THEN esc(join(<<" ","|"," ">>, tooltip_parts))
                    ELSE EmptyText
      state_class == IF sample.state # EmptyText
                       THEN <<" ","s","t","a","t","e","-">> \o sanitize_label(sample.state)
                       ELSE EmptyText
      data_state == IF sample.state # EmptyText
                      THEN sanitize_label(sample.state)
                      ELSE EmptyText
  IN [class |-> "quarter",
      state_class |-> state_class,
      background |-> esc(bg),
      data_state |-> esc(data_state),
      data_tip |-> tip_text,
      sidx |-> esc(label_index)]

\* the aggregate tooltip of an element cell
RECURSIVE sample_lines(_, _)
sample_lines(samples, i) ==
  IF i > Len(samples) THEN <<>>
  ELSE LET parts == sample_parts(samples[i])
       IN (IF parts # <<>>
             THEN <<str_int(i) \o <<":"," ">> \o join(<<";"," ">>, parts)>>
             ELSE <<>>)
          \o sample_lines(samples, i + 1)

cell_tip(e) ==
  esc(join(<<"\n">>,
           <<esc(e.name), <<"Z","=">> \o str_int(e.z)>> \o sample_lines(e.samples, 1)))

EmptyCell == [class |-> "cell empty"]
SpacerCell == [class |-> "cell spacer empty"]

element_cell(e) ==
  [class |-> "cell element",
   data_tip |-> cell_tip(e),
   data_z |-> str_int(e.z),
   number |-> str_int(e.z),
   symbol |-> esc(e.symbol),
   samples |-> [i \in 1..4 |-> render_sample_quarter(e.samples[i], i - 1)]]

\* elem_by_z = {e.z: e for e in elements}: a later element of the list
\* with the same atomic number replaces an earlier one.  last_index is the
\* position of the element the dict holds for z, 0 when it holds none.
last_index(elems, z) ==
  LET same == {i \in DOMAIN elems : elems[i].z = z}
  IN IF same = {} THEN 0 ELSE CHOOSE i \in same : \A j \in same : j <= i

\* a slip: the auxiliary rows start one column early
cell_z_from_col3(row, col) ==
  IF row <= 7 THEN build_cell_positions[<<row, col>>]
  ELSE IF row = 9 /\ 3 <= col /\ col <= 18
    THEN (IF col - 3 < Len(lanths) THEN lanths[col - 3 + 1] ELSE None)
  ELSE IF row = 10 /\ 3 <= col /\ col <= 18
    THEN (IF col - 3 < Len(actins) THEN actins[col - 3 + 1] ELSE None)
  ELSE None

\* the atomic number the loop body settles on for (row, col)
cell_z(row, col) ==
  IF row <= 7 THEN build_cell_positions[<<row, col>>]
  ELSE IF row = 9 /\ 4 <= col /\ col <= 18
    THEN (IF col - 4 < Len(lanths) THEN lanths[col - 4 + 1] ELSE None)
  ELSE IF row = 10 /\ 4 <= col /\ col <= 18
    THEN (IF col - 4 < Len(actins) THEN actins[col - 4 + 1] ELSE None)
  ELSE None

\* a slip: row 8 is treated like any other row
render_cell_no_spacer(elems, row, col) ==
  LET z == cell_z(row, col)
  IN IF z = None THEN EmptyCell
     ELSE LET i == last_index(elems, z)
          IN IF i = 0 THEN EmptyCell ELSE element_cell(elems[i])

\* the body of the loop over (row, col): the cell appended to cells_html
render_cell(elems, row, col) ==
  IF row = 8 THEN SpacerCell
  ELSE LET z == cell_z(row, col)
       IN IF z = None THEN EmptyCell
          ELSE LET i == last_index(elems, z)
               IN IF i = 0 THEN EmptyCell ELSE element_cell(elems[i])

\* cells_html: rows 1..10, and in each row columns 1..18
cells_html(elems) ==
  [k \in 1..(10 * 18) |-> render_cell(elems, ((k - 1) \div 18) + 1, ((k - 1) % 18) + 1)]

\* a slip: the legend's tag is built without lowercasing the label
RECURSIVE legend_html_no_lower(_)
legend_html_no_lower(order) ==
  IF order = <<>> THEN <<>>
  ELSE LET lab == Head(order)[1]
           color == Head(order)[2]
       IN (IF lab = EmptyText
             THEN <<>>
             ELSE <<[class |-> "legend-item",
                     data_state |-> esc(sanitize_label_no_lower(lab)),
                     background |-> esc(color),
                     text |-> esc(lab)]>>)
          \o legend_html_no_lower(Tail(order))

\* legend_html: one item per pair of legend_order with a non-empty label
RECURSIVE legend_html(_)
legend_html(order) ==
  IF order = <<>> THEN <<>>
  ELSE LET lab == Head(order)[1]
           color == Head(order)[2]
       IN (IF lab = EmptyText
             THEN <<>>
             ELSE <<[class |-> "legend-item",
                     data_state |-> esc(sanitize_label(lab)),
                     background |-> esc(color),
                     text |-> esc(lab)]>>)
          \o legend_html(Tail(order))

\* elementsData: atomic number -> the entry json.dumps writes for it
elements_js_object(elems) ==
  [z \in {elems[i].z : i \in DOMAIN elems} |->
     LET elem == elems[last_index(elems, z)]
     IN [z |-> elem.z,
         symbol |-> elem.symbol,
         name |-> elem.name,
         samples |-> [i \in DOMAIN elem.samples |->
                        [state |-> elem.samples[i].state,
                         value |-> elem.samples[i].value]]]]

render_html(elems, payload) ==
  [cells |-> cells_html(elems),
   legend |-> legend_html(legend_order(payload)),
   elementsData |-> elements_js_object(elems)]

(***************************************************************************)
(* The inputs of the pipeline: the texts, samples, entries and legends the  *)
(* responses are built from.                                                *)
(***************************************************************************)
TxtH == <<"H">>
TxtHPadded == <<" ","H"," ">>
TxtLa == <<"L","a">>
TxtZz == <<"Z","z">>
TxtOg == <<"O","g">>
TxtA1 == <<"A","1">>
TxtRnD == <<"R","&","D">>
TxtInArrivo == <<"i","n"," ","a","r","r","i","v","o">>
TxtDaComprare == <<"D","a"," ","C","o","m","p","r","a","r","e","!">>
TxtDaComprarePadded == <<" ","D","a"," ","C","o","m","p","r","a","r","e","!"," ">>
TxtGreen == <<"#","0","0","f","f","0","0">>
TxtRed == <<"#","f","f","0","0","0","0">>
TxtRedPadded == <<" ","#","f","f","0","0","0","0"," ">>
TxtGrey == <<"#","8","8","8","8","8","8">>

\* the spec's example: value "A1", state "in arrivo", no colour
SampleInArrivo ==
  [value |-> JStr(TxtA1), state |-> JStr(TxtInArrivo), color |-> JStr(EmptyText)]
\* a sample with its own colour, padded with blanks
SampleOwnColour ==
  [value |-> JStr(TxtRnD), state |-> JStr(TxtDaComprarePadded), color |-> JStr(TxtRedPadded)]
\* null value, null colour, no state key
SampleNulls == [value |-> JNull, color |-> JNull]
\* a number as value, an empty state, no colour key
SampleNumber == [value |-> JNum(42), state |-> JStr(EmptyText)]

\* the samples the long lists are made of
SamplePool == {SampleInArrivo, SampleNulls}

SampleLists == UNION {[1..k -> SamplePool] : k \in 0..MaxSamples}

\* one entry for H with every list of at most MaxSamples samples
DeepElementLists ==
  {<<[symbol |-> JStr(TxtH), samples |-> ss]>> : ss \in SampleLists}

EntryPool ==
  { [symbol |-> JStr(TxtH), samples |-> <<SampleInArrivo>>],
    [symbol |-> JStr(TxtHPadded), samples |-> <<SampleOwnColour, SampleNumber>>],
    [symbol |-> JStr(TxtLa), samples |-> <<>>],
    [symbol |-> JStr(TxtZz), samples |-> <<SampleNumber>>],
    [samples |-> <<SampleInArrivo>>],
    [symbol |-> JStr(TxtOg)] }

\* every list of at most MaxEntries entries of the pool, in any order
WideElementLists == UNION {[1..k -> EntryPool] : k \in 0..MaxEntries}

ElementLists == DeepElementLists \cup WideElementLists

\* the legend keys of the payload
LegendInputs ==
  { <<>>,
    [legend |-> <<>>, labelColors |-> <<>>],
    [legend |-> << <<TxtGreen, TxtInArrivo>>, <<TxtGrey, EmptyText>>,
                   <<TxtRed, TxtDaComprare>> >>,
     labelColors |-> << <<TxtInArrivo, TxtGreen>>, <<TxtDaComprare, TxtRed>> >>],
    [labelColors |-> << <<TxtDaComprare, TxtRed>>, <<EmptyText, TxtGrey>>,
                        <<TxtInArrivo, TxtGreen>> >>],
    [legend |-> << <<TxtGrey, EmptyText>>, <<TxtRed, TxtInArrivo>> >>,
     labelColors |-> << <<TxtDaComprare, TxtRed>>, <<TxtInArrivo, TxtGreen>> >>] }

Payloads ==
  {[k \in {"elements"} \cup DOMAIN lg |->
      IF k = "elements" THEN es ELSE lg[k]] :
   es \in ElementLists, lg \in LegendInputs}

GoodResponses ==
  {[exc |-> FALSE, status_code |-> 200, json_ok |-> TRUE, is_dict |-> TRUE, elements_null |-> FALSE,
    body |-> p] : p \in Payloads}

BadResponses ==
  { [exc |-> TRUE, status_code |-> 0, json_ok |-> FALSE, is_dict |-> FALSE, elements_null |-> FALSE, body |-> <<>>],
    [exc |-> FALSE, status_code |-> 500, json_ok |-> TRUE, is_dict |-> TRUE, elements_null |-> FALSE,
     body |-> [elements |-> <<>>]],
    [exc |-> FALSE, status_code |-> 200, json_ok |-> FALSE, is_dict |-> FALSE, elements_null |-> FALSE, body |-> <<>>],
    [exc |-> FALSE, status_code |-> 200, json_ok |-> TRUE, is_dict |-> FALSE, elements_null |-> FALSE, body |-> <<>>],
    [exc |-> FALSE, status_code |-> 200, json_ok |-> TRUE, is_dict |-> TRUE, elements_null |-> FALSE,
     body |-> [labelColors |-> <<>>]] }

\* a body that is an object whose "elements" is null, not a list
NullElementsResponses ==
  { [exc |-> FALSE, status_code |-> 200, json_ok |-> TRUE, is_dict |-> TRUE,
     elements_null |-> TRUE, body |-> [elements |-> <<>>]] }

Responses == GoodResponses \cup BadResponses \cup NullElementsResponses

(***************************************************************************)
(* fetch_sheet_data and main                                               *)
(***************************************************************************)
\* whether fetch_sheet_data raises RuntimeError on this response
fetch_raises(r) ==
  \/ r.exc
  \/ r.status_code # 200
  \/ ~r.json_ok
  \/ ~r.is_dict
  \/ "elements" \notin DOMAIN r.body

\* whether assemble_elements raises on the payload of this response: its
\* loop over data.get("elements", []) raises TypeError when the value is null
assemble_raises(r) == r.elements_null

\* the document as a browser has just loaded it: no class added yet, the
\* popup empty
ClientIdle ==
  /\ active = {}
  /\ filtered = {}
  /\ overlay_visible = FALSE
  /\ popup_visible = FALSE
  /\ popup_html = <<>>

LabelIdle ==
  /\ lstage = "off"
  /\ lbl = <<>>
  /\ variant = <<>>
  /\ stretched = FALSE
  /\ tag = <<>>
  /\ vtag = <<>>
  /\ retag = <<>>

Init ==
  /\ LabelIdle
  /\ ClientIdle
  /\ pc = "start"
  /\ response \in Responses
  /\ data = <<>>
  /\ elements = <<>>
  /\ html_out = <<>>
  /\ pos_map = <<>>
  /\ f_block = <<>>
  /\ output = <<>>
  /\ calls = <<>>

\* data = fetch_sheet_data(...): the payload is returned
Fetch ==
  /\ pc = "start"
  /\ ~fetch_raises(response)
  /\ data' = response.body
  /\ calls' = Append(calls, "fetch_sheet_data")
  /\ pc' = "fetched"
  /\ UNCHANGED <<response, elements, html_out, pos_map, f_block, output>>
  /\ UNCHANGED labelVars
  /\ UNCHANGED clientVars

\* data = fetch_sheet_data(...): RuntimeError leaves main
FetchFails ==
  /\ pc = "start"
  /\ fetch_raises(response)
  /\ calls' = Append(calls, "fetch_sheet_data")
  /\ pc' = "failed"
  /\ UNCHANGED <<response, data, elements, html_out, pos_map, f_block, output>>
  /\ UNCHANGED labelVars
  /\ UNCHANGED clientVars

\* elements = assemble_elements(data, data.get("labelColors", {}))
Assemble ==
  /\ pc = "fetched"
  /\ ~assemble_raises(response)
  /\ elements' = assemble_elements(data, get(data, "labelColors", <<>>))
  /\ calls' = Append(calls, "assemble_elements")
  /\ pc' = "assembled"
  /\ UNCHANGED <<response, data, html_out, pos_map, f_block, output>>
  /\ UNCHANGED labelVars
  /\ UNCHANGED clientVars

\* elements = assemble_elements(...): TypeError leaves main
AssembleFails ==
  /\ pc = "fetched"
  /\ assemble_raises(response)
  /\ calls' = Append(calls, "assemble_elements")
  /\ pc' = "failed"
  /\ UNCHANGED <<response, data, elements, html_out, pos_map, f_block, output>>
  /\ UNCHANGED labelVars
  /\ UNCHANGED clientVars

\* html_out = render_html(elements, data, ...)
Render ==
  /\ pc = "assembled"
  /\ pos_map' = build_cell_positions
  /\ f_block' = assign_f_block
  /\ html_out' = render_html(elements, data)
  /\ calls' = Append(calls, "render_html")
  /\ pc' = "rendered"
  /\ UNCHANGED <<response, data, elements, output>>
  /\ UNCHANGED labelVars
  /\ UNCHANGED clientVars

\* the output file is written
Write ==
  /\ pc = "rendered"
  /\ output' = html_out
  /\ pc' = "written"
  /\ UNCHANGED <<response, data, elements, html_out, pos_map, f_block, calls>>
  /\ UNCHANGED labelVars
  /\ UNCHANGED clientVars

\* opening or writing the output file raises
WriteFails ==
  /\ pc = "rendered"
  /\ pc' = "failed"
  /\ UNCHANGED <<response, data, elements, html_out, pos_map, f_block, output, calls>>
  /\ UNCHANGED labelVars
  /\ UNCHANGED clientVars

Next ==
  \/ Fetch
  \/ FetchFails
  \/ Assemble
  \/ AssembleFails
  \/ Render
  \/ Write
  \/ WriteFails

Spec == Init /\ [][Next]_vars

(***************************************************************************)
(* SpecLabel: sanitize_label on every lbl of at most MaxLen characters   *)
(* of LabelChars, and on the labels obtained from it by edits of the kinds *)
(* the tag is meant to ignore.                                             *)
(***************************************************************************)
LabelChars == {"a", "A", "1", " ", "-"}
LabelSeparators == {ch \in LabelChars : ~isalnum(ch)}
Labels == UNION {[1..k -> LabelChars] : k \in 0..MaxLen}

\* the letter in the other case
swapcase_ch(ch) ==
  IF ch \in Range(Uppers) THEN lower_ch(ch)
  ELSE Uppers[CHOOSE i \in DOMAIN Lowers : Lowers[i] = ch]

IsLetter(ch) == ch \in Range(Uppers) \cup Range(Lowers)

\* position i of s lies in a run of non-alphanumerics with an alphanumeric
\* somewhere before it and somewhere after it
InnerSeparator(s, i) ==
  /\ ~isalnum(s[i])
  /\ \E j \in 1..(i - 1) : isalnum(s[j])
  /\ \E j \in (i + 1)..Len(s) : isalnum(s[j])

PipeIdle ==
  /\ pc = "off"
  /\ response = <<>>
  /\ data = <<>>
  /\ elements = <<>>
  /\ html_out = <<>>
  /\ pos_map = <<>>
  /\ f_block = <<>>
  /\ output = <<>>
  /\ calls = <<>>

InitLabel ==
  /\ PipeIdle
  /\ ClientIdle
  /\ lstage = "input"
  /\ lbl \in Labels
  /\ variant = lbl
  /\ stretched = FALSE
  /\ tag = <<>>
  /\ vtag = <<>>
  /\ retag = <<>>

\* the variant's letter at i changes case
SwapCase ==
  /\ lstage = "input"
  /\ \E i \in DOMAIN variant :
       /\ IsLetter(variant[i])
       /\ variant' = [variant EXCEPT ![i] = swapcase_ch(variant[i])]
  /\ UNCHANGED <<lstage, lbl, stretched, tag, vtag, retag>>
  /\ UNCHANGED pipeVars
  /\ UNCHANGED clientVars

\* the variant's non-alphanumeric at i becomes another non-alphanumeric
SwapSeparator ==
  /\ lstage = "input"
  /\ \E i \in DOMAIN variant, ch \in LabelSeparators :
       /\ ~isalnum(variant[i])
       /\ ch # variant[i]
       /\ variant' = [variant EXCEPT ![i] = ch]
  /\ UNCHANGED <<lstage, lbl, stretched, tag, vtag, retag>>
  /\ UNCHANGED pipeVars
  /\ UNCHANGED clientVars

\* a non-alphanumeric is put in front of the variant
PadLeading ==
  /\ lstage = "input"
  /\ Len(variant) <= MaxLen
  /\ \E ch \in LabelSeparators : variant' = <<ch>> \o variant
  /\ UNCHANGED <<lstage, lbl, stretched, tag, vtag, retag>>
  /\ UNCHANGED pipeVars
  /\ UNCHANGED clientVars

\* a non-alphanumeric is put behind the variant
PadTrailing ==
  /\ lstage = "input"
  /\ Len(variant) <= MaxLen
  /\ \E ch \in LabelSeparators : variant' = variant \o <<ch>>
  /\ UNCHANGED <<lstage, lbl, stretched, tag, vtag, retag>>
  /\ UNCHANGED pipeVars
  /\ UNCHANGED clientVars

\* an inner run of non-alphanumerics of the variant grows by one character
StretchRun ==
  /\ lstage = "input"
  /\ Len(variant) <= MaxLen
  /\ \E i \in DOMAIN variant :
       /\ InnerSeparator(variant, i)
       /\ variant' = SubSeq(variant, 1, i) \o <<variant[i]>>
                       \o SubSeq(variant, i + 1, Len(variant))
  /\ stretched' = TRUE
  /\ UNCHANGED <<lstage, lbl, tag, vtag, retag>>
  /\ UNCHANGED pipeVars
  /\ UNCHANGED clientVars

\* both labels are normalised
Normalize ==
  /\ lstage = "input"
  /\ lstage' = "tagged"
  /\ tag' = sanitize_label(lbl)
  /\ vtag' = sanitize_label(variant)
  /\ UNCHANGED <<lbl, variant, stretched, retag>>
  /\ UNCHANGED pipeVars
  /\ UNCHANGED clientVars

\* the tag is normalised again
Renormalize ==
  /\ lstage = "tagged"
  /\ lstage' = "retagged"
  /\ retag' = sanitize_label(tag)
  /\ UNCHANGED <<lbl, variant, stretched, tag, vtag>>
  /\ UNCHANGED pipeVars
  /\ UNCHANGED clientVars

NextLabel ==
  \/ SwapCase
  \/ SwapSeparator
  \/ PadLeading
  \/ PadTrailing
  \/ StretchRun
  \/ Normalize
  \/ Renormalize

SpecLabel == InitLabel /\ [][NextLabel]_vars

\* C4 as stated: two labels that differ only in letter case, in the kind or
\* the length of their runs of non-alphanumerics, or in leading/trailing
\* non-alphanumerics get the same tag.
C4_SameTagAsStated == lstage # "input" => tag = vtag

\* C4, amended: the tag is lowercase, made of alphanumerics and '-' only and
\* neither starts nor ends with '-'; two labels that differ only in letter
\* case, in the kind of their non-alphanumerics or in leading/trailing
\* non-alphanumerics get the same tag, and two labels that differ in the
\* length of an inner run of non-alphanumerics get different tags (every
\* non-alphanumeric character becomes one separator; runs are not collapsed).
C4_SameTagAmended ==
  lstage # "input" =>
    /\ \A i \in DOMAIN tag :
         /\ isalnum(tag[i]) \/ tag[i] = "-"
         /\ tag[i] \notin Range(Uppers)
    /\ tag # <<>> => tag[1] # "-" /\ tag[Len(tag)] # "-"
    /\ (tag = vtag) <=> ~stretched

C4_Witness ==
  /\ lstage = "tagged"
  /\ ~stretched
  /\ Len(variant) > Len(lbl)
  /\ \E i \in DOMAIN lbl : lbl[i] \in Range(Uppers)
  /\ \E i \in DOMAIN tag : tag[i] = "-"
  /\ tag = vtag

\* C5: sanitize_label(sanitize_label(x)) = sanitize_label(x)
C5_Idempotent == lstage = "retagged" => retag = tag

C5_Witness ==
  /\ lstage = "retagged"
  /\ tag # lbl
  /\ \E i \in DOMAIN tag : tag[i] = "-"
  /\ retag = tag

(***************************************************************************)
(* Properties of the pipeline (Spec).                                      *)
(***************************************************************************)
Assembled == elements # <<>>
Rendered == html_out # <<>>

\* the cell of the rendered grid at (row, col), rows and columns from 1
Cell(row, col) == html_out.cells[(row - 1) * 18 + col]

\* where the periodic table puts an entry: a lanthanide or actinide in row 9
\* or 10 from column 4 on, any other entry at (period, group)
GridPos(meta) ==
  IF 57 <= meta.z /\ meta.z <= 71 THEN <<9, 4 + (meta.z - 57)>>
  ELSE IF 89 <= meta.z /\ meta.z <= 103 THEN <<10, 4 + (meta.z - 89)>>
  ELSE <<meta.period, meta.group>>

\* the samples the payload supplies for a symbol: those of the last entry
\* whose trimmed symbol it is
EntriesFor(sym) ==
  {j \in DOMAIN data.elements :
     /\ "symbol" \in DOMAIN data.elements[j]
     /\ data.elements[j].symbol.t = "str"
     /\ strip(data.elements[j].symbol.v, Whitespace) = sym}

SuppliedSamples(sym) ==
  IF EntriesFor(sym) = {} THEN <<>>
  ELSE LET j == CHOOSE j \in EntriesFor(sym) : \A k \in EntriesFor(sym) : k <= j
       IN IF "samples" \in DOMAIN data.elements[j]
            THEN data.elements[j].samples ELSE <<>>

\* a field of a supplied sample is a string or is absent
TextOrAbsent(s, key) == key \in DOMAIN s => s[key].t = "str"
\* the trimmed text of such a field, empty when absent
SuppliedText(s, key) ==
  IF key \in DOMAIN s THEN strip(s[key].v, Whitespace) ELSE EmptyText
\* a field of a supplied sample is absent, null or blank
Missing(s, key) ==
  \/ key \notin DOMAIN s
  \/ s[key].t = "null"
  \/ s[key].t = "str" /\ strip(s[key].v, Whitespace) = EmptyText

LabelColors == IF "labelColors" \in DOMAIN data THEN data.labelColors ELSE <<>>
LegendColour(st) ==
  IF \E i \in DOMAIN LabelColors : LabelColors[i][1] = st
    THEN LabelColors[CHOOSE i \in DOMAIN LabelColors : LabelColors[i][1] = st][2]
    ELSE EmptyText

\* C1: the main-grid map and the two auxiliary sequences render_html works
\* with place every id 1..118 exactly once; ids 57..71 and 89..103 only in
\* the auxiliary sequences, every other id at exactly one coordinate.
C1_EveryIdPlacedOnce ==
  Rendered =>
    /\ {PERIODIC_TABLE[i].z : i \in DOMAIN PERIODIC_TABLE} = 1..118
    /\ DOMAIN pos_map = (1..7) \X (1..18)
    /\ \A z \in 1..118 :
         LET main == {c \in DOMAIN pos_map : pos_map[c] = z}
             aux1 == {k \in DOMAIN f_block[1] : f_block[1][k] = z}
             aux2 == {k \in DOMAIN f_block[2] : f_block[2][k] = z}
         IN /\ Cardinality(main) + Cardinality(aux1) + Cardinality(aux2) = 1
            /\ (57 <= z /\ z <= 71) <=> aux1 # {}
            /\ (89 <= z /\ z <= 103) <=> aux2 # {}
    /\ \A c \in DOMAIN pos_map : pos_map[c] = None \/ pos_map[c] \in 1..118
    /\ \A k \in DOMAIN f_block[1] : f_block[1][k] \in 1..118
    /\ \A k \in DOMAIN f_block[2] : f_block[2][k] \in 1..118

C1_Witness ==
  /\ Rendered
  /\ pos_map[<<6, 3>>] = None
  /\ pos_map[<<6, 4>>] = 72
  /\ f_block[1][15] = 71
  /\ f_block[2][1] = 89
  /\ Cell(6, 3).class = "cell empty"
  /\ Cell(6, 4).class = "cell element" /\ Cell(6, 4).number = <<"7","2">>
  /\ Cell(9, 18).class = "cell element" /\ Cell(9, 18).number = <<"7","1">>
  /\ Cell(10, 4).class = "cell element" /\ Cell(10, 4).number = <<"8","9">>

\* C2: merge returns exactly 118 entities, one per table entry in ascending
\* id order, each with exactly 4 samples, whatever the payload.
C2_AlwaysFourSamples ==
  Assembled =>
    /\ Len(elements) = 118
    /\ \A i \in DOMAIN elements :
         /\ elements[i].z = i
         /\ elements[i].symbol = PERIODIC_TABLE[i].symbol
         /\ Len(elements[i].samples) = 4

\* C3: a supplied sample with a state and no colour gets labelColors[state]
\* when the mapping has that label and stays without colour otherwise; a
\* sample with a colour keeps it; every slot the payload did not supply is a
\* fully empty sample.  (State and colour are the trimmed texts of fields
\* that are strings or absent.)
C3_ColourBackfill ==
  Assembled =>
    \A i \in DOMAIN elements :
      LET supplied == SuppliedSamples(PERIODIC_TABLE[i].symbol)
          merged == elements[i].samples
      IN /\ Len(merged) >= Len(supplied)
         /\ \A k \in DOMAIN supplied :
              LET s == supplied[k] IN
              (TextOrAbsent(s, "state") /\ TextOrAbsent(s, "color")) =>
                LET st == SuppliedText(s, "state")
                    co == SuppliedText(s, "color")
                IN /\ merged[k].state = st
                   /\ merged[k].color =
                        IF co # EmptyText THEN co
                        ELSE IF st # EmptyText THEN LegendColour(st)
                        ELSE EmptyText
         /\ \A k \in (Len(supplied) + 1)..Len(merged) :
              /\ merged[k].value = EmptyText
              /\ merged[k].state = EmptyText
              /\ merged[k].color = EmptyText

\* the spec's example: H with the one sample A1 / "in arrivo" / no colour and
\* labelColors mapping "in arrivo" to #00ff00
C3_Witness ==
  /\ pc = "assembled"
  /\ data.elements = <<[symbol |-> JStr(TxtH), samples |-> <<SampleInArrivo>>]>>
  /\ LegendColour(TxtInArrivo) = TxtGreen
  /\ elements[1].samples[1] = [value |-> TxtA1, state |-> TxtInArrivo, color |-> TxtGreen]
  /\ \A k \in 2..4 : elements[1].samples[k] = EmptySample
  /\ Len(elements[1].samples) = 4

\* no entities and no legend entries in the payload
EmptyInput ==
  /\ data # <<>>
  /\ data.elements = <<>>
  /\ get(data, "legend", <<>>) = <<>>
  /\ get(data, "labelColors", <<>>) = <<>>

\* C6 as stated: with no entities and empty legends the document has no
\* legend entry and all 118 element positions are rendered as empty cells.
C6_AllPositionsEmptyCells ==
  (Rendered /\ EmptyInput) =>
    /\ html_out.legend = <<>>
    /\ \A i \in DOMAIN PERIODIC_TABLE :
         Cell(GridPos(PERIODIC_TABLE[i])[1], GridPos(PERIODIC_TABLE[i])[2]).class
           = "cell empty"

\* C6, amended: with no entities and empty legends the document has no legend
\* entry, and each of the 118 element positions holds a populated cell
\* (number, symbol, a tooltip of name and Z only) whose 4 quarters are all
\* empty: neutral placeholder colour, no filter tag, no state class, empty
\* tooltip.
C6_AllQuartersEmpty ==
  (Rendered /\ EmptyInput) =>
    /\ html_out.legend = <<>>
    /\ Len(html_out.cells) = 180
    /\ \A i \in DOMAIN PERIODIC_TABLE :
         LET meta == PERIODIC_TABLE[i]
             cell == Cell(GridPos(meta)[1], GridPos(meta)[2])
         IN /\ cell.class = "cell element"
            /\ cell.number = str_int(meta.z)
            /\ cell.symbol = meta.symbol
            /\ cell.data_tip = meta.name \o <<"\n","Z","=">> \o str_int(meta.z)
            /\ Len(cell.samples) = 4
            /\ \A k \in 1..4 :
                 /\ cell.samples[k].background = NeutralColour
                 /\ cell.samples[k].data_state = EmptyText
                 /\ cell.samples[k].state_class = EmptyText
                 /\ cell.samples[k].data_tip = EmptyText

C6_Witness ==
  /\ pc = "written"
  /\ EmptyInput
  /\ "legend" \in DOMAIN data
  /\ output.legend = <<>>
  /\ Cell(1, 1).class = "cell element"
  /\ Cell(1, 1).samples[1].background = NeutralColour

\* C7: when an entry supplies more than 4 samples only the first 4 are kept,
\* and nothing of a later one is in the document: the cell has 4 quarters,
\* its tooltip is that of the first 4 samples, and the embedded sample data
\* holds 4 samples.
C7_OnlyFirstFourRendered ==
  Rendered =>
    \A i \in DOMAIN elements :
      LET e == elements[i]
          cell == Cell(GridPos(PERIODIC_TABLE[i])[1], GridPos(PERIODIC_TABLE[i])[2])
          firstFour == [e EXCEPT !.samples = SubSeq(e.samples, 1, 4)]
      IN /\ Len(e.samples) <= 4
         /\ Len(cell.samples) = 4
         /\ cell.data_tip = cell_tip(firstFour)
         /\ Len(html_out.elementsData[e.z].samples) <= 4

\* C8: auxiliary slot k (from 0) is at column 4 + k: ids 57..71 fill row 9,
\* columns 4..18, and ids 89..103 fill row 10, columns 4..18, in ascending
\* order without gaps.
C8_AuxiliarySlotColumns ==
  Rendered =>
    \A k \in 0..14 :
      /\ Cell(9, 4 + k).class = "cell element"
      /\ Cell(9, 4 + k).data_z = str_int(57 + k)
      /\ Cell(9, 4 + k).symbol = PERIODIC_TABLE[57 + k].symbol
      /\ Cell(10, 4 + k).class = "cell element"
      /\ Cell(10, 4 + k).data_z = str_int(89 + k)
      /\ Cell(10, 4 + k).symbol = PERIODIC_TABLE[89 + k].symbol

C8_Witness ==
  /\ pc = "rendered"
  /\ Cell(9, 4).number = <<"5","7">>
  /\ Cell(9, 18).number = <<"7","1">>
  /\ Cell(10, 4).number = <<"8","9">>
  /\ Cell(10, 18).number = <<"1","0","3">>
  /\ \E j \in DOMAIN data.elements :
       /\ "symbol" \in DOMAIN data.elements[j]
       /\ data.elements[j].symbol = JStr(TxtLa)

\* C9: the grid has one cell per position of 10 rows by 18 columns, in
\* row-major order; row 8 is all spacers and no other row has one; columns
\* 1..3 of rows 9 and 10 are empty cells; (6, 3) and (7, 3) are empty cells.
C9_GridShape ==
  Rendered =>
    /\ Len(html_out.cells) = 10 * 18
    /\ \A col \in 1..18 : Cell(8, col).class = "cell spacer empty"
    /\ \A row \in (1..10) \ {8}, col \in 1..18 :
         Cell(row, col).class \in {"cell empty", "cell element"}
    /\ \A row \in {9, 10}, col \in 1..3 : Cell(row, col).class = "cell empty"
    /\ Cell(6, 3).class = "cell empty"
    /\ Cell(7, 3).class = "cell empty"
    /\ \A i \in DOMAIN PERIODIC_TABLE :
         Cell(GridPos(PERIODIC_TABLE[i])[1], GridPos(PERIODIC_TABLE[i])[2]).class
           = "cell element"

C9_Witness ==
  /\ pc = "rendered"
  /\ Len(data.elements) = MaxEntries
  /\ Cell(8, 1).class = "cell spacer empty"
  /\ Cell(9, 3).class = "cell empty"
  /\ Cell(7, 3).class = "cell empty"
  /\ Cell(7, 4).class = "cell element"

\* C10: a quarter's background is its sample's colour or the neutral
\* placeholder; a sample whose colour is missing (absent, null or empty) and
\* whose state has no legend colour gets the placeholder, never an empty or
\* non-colour value.
C10_PlaceholderWhenNoColour ==
  Rendered =>
    \A i \in DOMAIN PERIODIC_TABLE :
      LET supplied == SuppliedSamples(PERIODIC_TABLE[i].symbol)
          cell == Cell(GridPos(PERIODIC_TABLE[i])[1], GridPos(PERIODIC_TABLE[i])[2])
      IN \A k \in 1..4 :
           /\ cell.samples[k].background # EmptyText
           /\ (k \in DOMAIN supplied /\ Missing(supplied[k], "color")
                 /\ (Missing(supplied[k], "state")
                       \/ (supplied[k].state.t = "str"
                           /\ LegendColour(SuppliedText(supplied[k], "state")) = EmptyText)))
                => cell.samples[k].background = NeutralColour
           /\ k \notin DOMAIN supplied => cell.samples[k].background = NeutralColour

(***************************************************************************)
(* SpecClient: the written document in a browser.  The script of the       *)
(* document runs once the document is loaded and registers three click     *)
(* handlers: on every legend item, on the overlay and on every element     *)
(* cell.  The handlers add and remove classes and set the popup's content;  *)
(* they never add or remove an element.                                    *)
(***************************************************************************)
\* what the HTML parser makes of an attribute value: the character
\* references html.escape writes are decoded, once
RECURSIVE unesc(_)
unesc(s) ==
  IF s = <<>> THEN <<>>
  ELSE LET refs == {ch \in EscapedChars :
                      /\ Len(s) >= Len(esc_ch(ch))
                      /\ SubSeq(s, 1, Len(esc_ch(ch))) = esc_ch(ch)}
       IN IF refs = {} THEN <<Head(s)>> \o unesc(Tail(s))
          ELSE LET ch == CHOOSE c \in refs : TRUE
               IN <<ch>> \o unesc(SubSeq(s, Len(esc_ch(ch)) + 1, Len(s)))

\* el.getAttribute(name), given the text the document has for the attribute
getAttribute(text) == unesc(text)

\* document.querySelectorAll('.cell.element'), as positions in the grid
ElementCells(doc) ==
  {k \in DOMAIN doc.cells : doc.cells[k].class = "cell element"}

\* document.querySelectorAll('.quarter'): quarter i of the element cell at k
Quarters(doc) == {<<k, i>> : k \in ElementCells(doc), i \in 1..4}

\* q.getAttribute('data-state')
qState(doc, q) == getAttribute(doc.cells[q[1]].samples[q[2]].data_state)

\* document.querySelectorAll('.legend-item'), as positions in the legend
legendItems(doc) == DOMAIN doc.legend

\* item.getAttribute('data-state')
legend_state(doc, j) == getAttribute(doc.legend[j].data_state)

\* a slip: a click on the active item toggles it off
legend_click_active_toggle(doc, act, j) ==
  {li \in legendItems(doc) : li = j /\ li \notin act}

\* legendItems.forEach(li => li.classList.toggle('active', li === this)):
\* the items that have class "active" afterwards, `act` having it before
legend_click_active(doc, act, j) ==
  {li \in legendItems(doc) : li = j}

\* a slip: the quarters that match are de-emphasized, the others shown
legend_click_filtered_inverted(doc, filt, j) ==
  LET state == legend_state(doc, j)
  IN {q \in Quarters(doc) :
        IF state = <<>> THEN FALSE
        ELSE IF qState(doc, q) = state THEN TRUE
        ELSE FALSE}

\* the loop over the quarters in the legend item's handler: the quarters
\* that have class "filtered" afterwards, `filt` having it before
legend_click_filtered(doc, filt, j) ==
  LET state == legend_state(doc, j)
  IN {q \in Quarters(doc) :
        IF state = <<>> THEN FALSE             \* classList.remove
        ELSE IF qState(doc, q) # state THEN TRUE   \* classList.add
        ELSE FALSE}                            \* classList.remove

\* elementsData[z] for the text z of a data-z attribute: the object literal's
\* keys are the decimal atomic numbers
has_info(doc, key) == \E z \in DOMAIN doc.elementsData : str_int(z) = key
info_of(doc, key) ==
  doc.elementsData[CHOOSE z \in DOMAIN doc.elementsData : str_int(z) = key]

Dash == <<"-">>

\* a slip: the popup is built for the element after the clicked one
popup_content_next(doc, key) ==
  LET z == CHOOSE z \in DOMAIN doc.elementsData : str_int(z) = key
      info == doc.elementsData[IF z + 1 \in DOMAIN doc.elementsData THEN z + 1 ELSE z]
  IN [h2 |-> [symbol |-> info.symbol, name |-> info.name, z |-> str_int(info.z)],
      li |-> [i \in DOMAIN info.samples |->
                [campione |-> str_int(i),
                 st |-> IF info.samples[i].state # EmptyText
                          THEN info.samples[i].state ELSE Dash,
                 val |-> info.samples[i].value]]]

\* the html the element cell's handler assigns to popup.innerHTML: a heading
\* of symbol, name and Z, and one list item per sample of info.samples
popup_content(doc, key) ==
  LET info == info_of(doc, key)
  IN [h2 |-> [symbol |-> info.symbol, name |-> info.name, z |-> str_int(info.z)],
      li |-> [i \in DOMAIN info.samples |->
                [campione |-> str_int(i),
                 st |-> IF info.samples[i].state # EmptyText
                          THEN info.samples[i].state ELSE Dash,
                 val |-> info.samples[i].value]]]

\* the documents the browser is given: the output of the pipeline for a few
\* payloads, with labels and states that share a tag, that differ in case
\* and punctuation, and that have no letter or digit at all
TxtBang == <<"!","!","!">>
TxtBlue == <<"#","0","0","0","0","f","f">>
TxtHe == <<"H","e">>

\* a state with no alphanumeric character
SampleBang == [value |-> JStr(TxtRnD), state |-> JStr(TxtBang), color |-> JStr(TxtBlue)]

ClientElementLists ==
  { <<>>,
    <<[symbol |-> JStr(TxtH), samples |-> <<SampleInArrivo>>]>>,
    <<[symbol |-> JStr(TxtH), samples |-> <<SampleInArrivo, SampleOwnColour>>],
      [symbol |-> JStr(TxtLa), samples |-> <<SampleOwnColour, SampleNumber>>]>>,
    <<[symbol |-> JStr(TxtH),
       samples |-> <<SampleInArrivo, SampleBang, SampleNulls, SampleOwnColour>>],
      [symbol |-> JStr(TxtHe), samples |-> <<SampleBang>>]>> }

ClientLegendInputs ==
  { <<>>,
    [legend |-> << <<TxtGreen, TxtInArrivo>>, <<TxtGrey, EmptyText>>,
                   <<TxtRed, TxtDaComprare>> >>,
     labelColors |-> << <<TxtInArrivo, TxtGreen>>, <<TxtDaComprare, TxtRed>> >>],
    [legend |-> << <<TxtGreen, TxtInArrivo>>, <<TxtBlue, TxtBang>>,
                   <<TxtRed, TxtDaComprare>> >>],
    [labelColors |-> << <<TxtDaComprare, TxtRed>>, <<TxtInArrivo, TxtGreen>> >>] }

ClientPayloads ==
  {[k \in {"elements"} \cup DOMAIN lg |->
      IF k = "elements" THEN es ELSE lg[k]] :
   es \in ClientElementLists, lg \in ClientLegendInputs}

\* the element cells the user clicks on: H, He and La
ClickedZ == {1, 2, 57}

\* the state main() ends in for a payload, loaded by a browser
InitClient ==
  /\ LabelIdle
  /\ ClientIdle
  /\ \E p \in ClientPayloads :
       /\ response = [exc |-> FALSE, status_code |-> 200, json_ok |-> TRUE,
                      is_dict |-> TRUE, elements_null |-> FALSE, body |-> p]
       /\ data = p
       /\ elements = assemble_elements(p, get(p, "labelColors", <<>>))
       /\ html_out = render_html(assemble_elements(p, get(p, "labelColors", <<>>)), p)
       /\ output = render_html(assemble_elements(p, get(p, "labelColors", <<>>)), p)
  /\ pos_map = build_cell_positions
  /\ f_block = assign_f_block
  /\ calls = <<"fetch_sheet_data", "assemble_elements", "render_html">>
  /\ pc = "written"

\* a click on legend item j
ClickLegend(j) ==
  /\ j \in legendItems(output)
  /\ active' = legend_click_active(output, active, j)
  /\ filtered' = legend_click_filtered(output, filtered, j)
  /\ UNCHANGED <<overlay_visible, popup_visible, popup_html>>
  /\ UNCHANGED pipeVars
  /\ UNCHANGED labelVars

\* a click on the overlay
ClickOverlay ==
  /\ overlay_visible' = FALSE
  /\ popup_visible' = FALSE
  /\ UNCHANGED <<active, filtered, popup_html>>
  /\ UNCHANGED pipeVars
  /\ UNCHANGED labelVars

\* a click on the element cell at position k of the grid
ClickCell(k) ==
  /\ k \in ElementCells(output)
  /\ LET z == getAttribute(output.cells[k].data_z)
     IN /\ has_info(output, z)
        /\ popup_html' = popup_content(output, z)
        /\ overlay_visible' = TRUE
        /\ popup_visible' = TRUE
  /\ UNCHANGED <<active, filtered>>
  /\ UNCHANGED pipeVars
  /\ UNCHANGED labelVars

ClickAnyLegend == \E j \in legendItems(output) : ClickLegend(j)

ClickAnyCell ==
  \E k \in ElementCells(output) :
    /\ \E z \in ClickedZ : getAttribute(output.cells[k].data_z) = str_int(z)
    /\ ClickCell(k)

NextClient ==
  \/ ClickAnyLegend
  \/ ClickOverlay
  \/ ClickAnyCell

SpecClient == InitClient /\ [][NextClient]_vars

(***************************************************************************)
(* Properties of the document in a browser (SpecClient).                   *)
(***************************************************************************)
\* the label a legend item shows
LegendLabel(j) == unesc(output.legend[j].text)

\* the quarter of the document that renders sample k of the i-th element
QuarterOf(i, k) ==
  <<(GridPos(PERIODIC_TABLE[i])[1] - 1) * 18 + GridPos(PERIODIC_TABLE[i])[2], k>>

\* the quarters whose sample has the state st
QuartersWithState(st) ==
  UNION {{QuarterOf(i, k) : k \in {k \in 1..4 : elements[i].samples[k].state = st}} :
         i \in DOMAIN elements}

\* C11: a legend item and every quarter whose sample's state is the item's
\* label have the same filter tag, and once the item has been clicked (it is
\* the active one) every such quarter is without the class "filtered".
C11_SameTagSoVisible ==
  \A j \in legendItems(output) :
    \A q \in QuartersWithState(LegendLabel(j)) :
      /\ q \in Quarters(output)
      /\ qState(output, q) = legend_state(output, j)
      /\ active = {j} => q \notin filtered

\* the item "Da Comprare!" is active, the quarter of H with that state is
\* shown and the quarter "in arrivo" is de-emphasized
C11_Witness ==
  /\ \E j \in legendItems(output) :
       /\ LegendLabel(j) = TxtDaComprare
       /\ active = {j}
       /\ legend_state(output, j) = <<"d","a","-","c","o","m","p","r","a","r","e">>
  /\ elements[1].samples[2].state = TxtDaComprare
  /\ QuarterOf(1, 2) \in QuartersWithState(TxtDaComprare)
  /\ QuarterOf(1, 2) \notin filtered
  /\ QuarterOf(1, 1) \in filtered

\* C12: a click on a legend item leaves exactly that item active, every
\* quarter whose tag differs from the item's tag de-emphasized and every
\* quarter whose tag equals it shown; and no step of the document takes a
\* quarter away.
C12_ClickFiltersByTag ==
  [][/\ Quarters(output)' = Quarters(output)
     /\ \A j \in legendItems(output) :
          ClickLegend(j) =>
            /\ active' = {j}
            /\ \A q \in Quarters(output) :
                 /\ qState(output, q) # legend_state(output, j) => q \in filtered'
                 /\ qState(output, q) = legend_state(output, j) => q \notin filtered']_vars

\* C13: once a legend item is active no step leaves the document without an
\* active item; a click on the active item leaves the active item and the
\* de-emphasized quarters as they are; and a step that changes the active
\* item or the de-emphasized quarters is a click on a legend item that was
\* not active, which is the only active item afterwards.
C13_FilterNeverCleared ==
  [][/\ active # {} => active' # {}
     /\ \A j \in legendItems(output) :
          /\ ClickLegend(j) => active' # {}
          /\ (ClickLegend(j) /\ active = {j}) =>
               (active' = active /\ filtered' = filtered)
     /\ (active' # active \/ filtered' # filtered) =>
          \E j \in legendItems(output) \ active :
            ClickLegend(j) /\ active' = {j}]_vars

\* "in arrivo" was clicked, then H was opened and closed again: the item is
\* still the active one and the other quarters are still de-emphasized
C13_Witness ==
  /\ \E j \in legendItems(output) :
       /\ active = {j}
       /\ LegendLabel(j) = TxtInArrivo
  /\ popup_html # <<>>
  /\ ~overlay_visible
  /\ QuarterOf(1, 1) \notin filtered
  /\ QuarterOf(1, 2) \in filtered

\* the position in `elements` of the entity an element cell shows
EntityOfCell(k) ==
  CHOOSE i \in DOMAIN elements : str_int(elements[i].z) = unesc(output.cells[k].number)

\* C14: a click on an element cell opens the popup with that cell's entity
\* (its symbol, name and number, one line per sample) and a click on the
\* overlay closes it, and both leave the active legend item and the
\* de-emphasized quarters as they are; a click on a legend item leaves the
\* overlay and the popup as they are.
C14_DetailAndFilterIndependent ==
  [][/\ \A k \in ElementCells(output) :
          ClickCell(k) =>
            /\ overlay_visible' /\ popup_visible'
            /\ popup_html'.h2.symbol = unesc(output.cells[k].symbol)
            /\ popup_html'.h2.z = unesc(output.cells[k].number)
            /\ popup_html'.h2.name = elements[EntityOfCell(k)].name
            /\ Len(popup_html'.li) = Len(elements[EntityOfCell(k)].samples)
            /\ \A i \in DOMAIN popup_html'.li :
                 /\ popup_html'.li[i].val = elements[EntityOfCell(k)].samples[i].value
                 /\ popup_html'.li[i].st =
                      IF elements[EntityOfCell(k)].samples[i].state = EmptyText
                        THEN Dash
                        ELSE elements[EntityOfCell(k)].samples[i].state
            /\ active' = active /\ filtered' = filtered
     /\ ClickOverlay =>
          /\ ~overlay_visible' /\ ~popup_visible'
          /\ active' = active /\ filtered' = filtered
     /\ \A j \in legendItems(output) :
          ClickLegend(j) =>
            /\ overlay_visible' = overlay_visible
            /\ popup_visible' = popup_visible
            /\ popup_html' = popup_html]_vars

\* "in arrivo" is the active filter and the popup of H is open
C14_Witness ==
  /\ \E j \in legendItems(output) : active = {j} /\ LegendLabel(j) = TxtInArrivo
  /\ filtered # {}
  /\ overlay_visible /\ popup_visible
  /\ popup_html.h2.symbol = TxtH
  /\ popup_html.li[1].st = TxtInArrivo
  /\ popup_html.li[1].val = TxtA1

(***************************************************************************)
(* Further properties of the pipeline (Spec).                              *)
(***************************************************************************)
\* the response brings no payload with a list of entries under "elements":
\* the request failed, the status is not 200, the body is not JSON, is not
\* an object, has no "elements", or has an "elements" that is not a list
Malformed(r) ==
  \/ r.exc
  \/ r.status_code # 200
  \/ ~r.json_ok
  \/ ~r.is_dict
  \/ "elements" \notin DOMAIN r.body
  \/ r.elements_null

\* C15: on a malformed or missing payload the run ends in the fetch stage:
\* fetch_sheet_data is the only function ever invoked, the run never gets
\* past it, and nothing is written.
C15_MalformedFailsAtFetch ==
  Malformed(response) =>
    /\ pc \in {"start", "failed"}
    /\ calls \in {<<>>, <<"fetch_sheet_data">>}
    /\ elements = <<>>
    /\ html_out = <<>>
    /\ output = <<>>

\* the separator of a quarter's tooltip
TipSeparator == <<" ","|"," ">>

\* C16: every element cell has exactly 4 quarters; quarter k shows the index
\* k and stands for the k-th sample of the entity: its data-state attribute
\* is the normalized tag of the sample's state (empty when the state is
\* empty) and its data-tip attribute is the sample's non-empty state and
\* value, in that order, joined by the separator (empty when both are empty).
C16_QuarterShowsSample ==
  Rendered =>
    \A i \in DOMAIN elements :
      LET cell == Cell(GridPos(PERIODIC_TABLE[i])[1], GridPos(PERIODIC_TABLE[i])[2])
      IN /\ cell.class = "cell element"
         /\ Len(cell.samples) = 4
         /\ \A k \in 1..4 :
              LET s == elements[i].samples[k]
                  quarter == cell.samples[k]
              IN /\ unesc(quarter.sidx) = str_int(k)
                 /\ unesc(quarter.data_state) =
                      IF s.state = EmptyText THEN EmptyText ELSE sanitize_label(s.state)
                 /\ unesc(quarter.data_tip) = join(TipSeparator, sample_parts(s))

\* a pair of the legend mapping (colour, label) has a label
HasLabel(pair) == pair[2] # EmptyText
\* a pair of labelColors (label, colour) has a label
HasLabelFirst(pair) == pair[1] # EmptyText

\* C17: with a "legend" mapping in the payload the legend shows exactly the
\* mapping's entries that have a label, in the mapping's order, each with
\* the colour that is its key, whatever labelColors holds; without one it
\* shows the entries of labelColors that have a label.
C17_LegendFromMapping ==
  Rendered =>
    IF "legend" \in DOMAIN data
      THEN LET kept == SelectSeq(data.legend, HasLabel)
           IN /\ Len(html_out.legend) = Len(kept)
              /\ \A j \in DOMAIN kept :
                   /\ html_out.legend[j].class = "legend-item"
                   /\ unesc(html_out.legend[j].text) = kept[j][2]
                   /\ unesc(html_out.legend[j].background) = kept[j][1]
      ELSE LET kept == SelectSeq(LabelColors, HasLabelFirst)
           IN /\ Len(html_out.legend) = Len(kept)
              /\ \A j \in DOMAIN kept :
                   /\ unesc(html_out.legend[j].text) = kept[j][1]
                   /\ unesc(html_out.legend[j].background) = kept[j][2]

\* a legend mapping of two entries, the first without a label, and a
\* labelColors of two entries that gives "in arrivo" another colour: one
\* item, with the colour of the legend mapping
C17_Witness ==
  /\ Rendered
  /\ "legend" \in DOMAIN data
  /\ data.legend = << <<TxtGrey, EmptyText>>, <<TxtRed, TxtInArrivo>> >>
  /\ LegendColour(TxtInArrivo) = TxtGreen
  /\ Len(LabelColors) = 2
  /\ Len(html_out.legend) = 1
  /\ html_out.legend[1].text = TxtInArrivo
  /\ html_out.legend[1].background = TxtRed

\* C18: every quarter whose sample has a state has a non-empty data-state,
\* and so has every legend item; a quarter with a state is therefore never
\* tagged like one without, and the handler of a legend item never finds its
\* own data-state empty.
C18_TagsNeverEmpty ==
  /\ \A i \in DOMAIN elements, k \in 1..4 :
       elements[i].samples[k].state # EmptyText =>
         qState(output, QuarterOf(i, k)) # EmptyText
  /\ \A j \in legendItems(output) :
       /\ LegendLabel(j) # EmptyText
       /\ legend_state(output, j) # EmptyText

====
